---- MODULE Spec2Model ----
(***************************************************************************)
(* Texas Instruments K3 EIP76D TRNG driver                                 *)
(* (core/arch/arm/plat-k3/drivers/eip76d_trng.c).                          *)
(*                                                                         *)
(* The model covers eip76d_rng_init, eip76d_rng_init_seq,                  *)
(* eip76d_rng_is_enabled, eip76d_rng_read128 and hw_get_random_bytes.      *)
(* Every access to a device register and every access to the shared FIFO   *)
(* is one step of the thread that performs it.  The device itself is the   *)
(* environment: a register file with the semantics of the register table,  *)
(* which presents READY, raises SHUTDOWN_OFLO and may be disabled          *)
(* externally.                                                             *)
(*                                                                         *)
(* A 32-bit register value is a pair <<hi, lo>> of 16-bit halves, so that  *)
(* values such as 0xDEADBEEF keep their width.                             *)
(***************************************************************************)
EXTENDS Integers, Sequences, FiniteSets, TLC

(***************************************************************************)
(* Register map (offsets from the device base) and bit positions.          *)
(***************************************************************************)
RNG_OUTPUT_0 == 0
RNG_OUTPUT_1 == 4
RNG_OUTPUT_2 == 8
RNG_OUTPUT_3 == 12
RNG_STATUS == 16
RNG_INTACK == 16
RNG_CONTROL == 20
RNG_CONFIG == 24
RNG_FROENABLE == 32
RNG_FRODETUNE == 36
RNG_ALARMMASK == 40
RNG_ALARMSTOP == 44

READY_BIT == 0
OFLO_BIT == 1
ENABLE_BIT == 10

RNG_CONFIG_MIN_REFIL_CYCLES == 5
RNG_CONFIG_MAX_REFIL_CYCLES == 34

FIFO_BYTES == 16

Offsets == {RNG_OUTPUT_0, RNG_OUTPUT_1, RNG_OUTPUT_2, RNG_OUTPUT_3,
            RNG_STATUS, RNG_CONTROL, RNG_CONFIG, RNG_FROENABLE,
            RNG_FRODETUNE, RNG_ALARMMASK, RNG_ALARMSTOP}

(***************************************************************************)
(* Bounds of the model.                                                    *)
(***************************************************************************)
NCallers == 2      \* threads calling hw_get_random_bytes
ConcLen == 2       \* largest len of a call in the concurrent specification
MaxBlocks == 2     \* blocks the device produces (concurrent specification)
MaxCalls == 3      \* calls of hw_get_random_bytes made in all
SoloCalls == 2     \* calls made in the single-caller specification
MaxEvents == 1     \* shutdown-overflow and external disable events in all
MaxOflo == 3       \* events in all where shutdown overflows repeat

(***************************************************************************)
(* 32-bit words as <<hi, lo>>.                                             *)
(***************************************************************************)
W(hi, lo) == <<hi, lo>>

ZERO == W(0, 0)

BIT(n) == IF n < 16 THEN W(0, 2 ^ n) ELSE W(2 ^ (n - 16), 0)

RNG_READY == BIT(READY_BIT)
SHUTDOWN_OFLO == BIT(OFLO_BIT)
ENABLE_TRNG == BIT(ENABLE_BIT)
RNG_FRO_MASK == W(255, 65535)

RECURSIVE Xor16(_, _, _)
Xor16(a, b, n) ==
    IF n = 0 THEN 0
    ELSE ((a + b) % 2) + 2 * Xor16(a \div 2, b \div 2, n - 1)

RECURSIVE And16(_, _, _)
And16(a, b, n) ==
    IF n = 0 THEN 0
    ELSE ((a % 2) * (b % 2)) + 2 * And16(a \div 2, b \div 2, n - 1)

\* a ^ b
XorW(a, b) == W(Xor16(a[1], b[1], 16), Xor16(a[2], b[2], 16))

\* a & b
AndW(a, b) == W(And16(a[1], b[1], 16), And16(a[2], b[2], 16))

\* a | b
OrW(a, b) == XorW(XorW(a, b), AndW(a, b))

\* a & ~b
ClearW(a, b) == XorW(a, AndW(a, b))

\* (a & b) != 0
TestW(a, b) == AndW(a, b) # ZERO


(***************************************************************************)
(* Threads: the platform bring-up thread, which runs eip76d_rng_init, and  *)
(* the callers of hw_get_random_bytes.                                     *)
(***************************************************************************)
BOOT == 0
Callers == 1 .. NCallers
Threads == {BOOT} \cup Callers

NOBODY == <<>>
NULL == "NULL"
RNG_VA == "RNG_VA"
TEE_SUCCESS == "TEE_SUCCESS"
NONE == "none"

(***************************************************************************)
(* The output sequence of the device: block k is four words.  Even blocks  *)
(* count their bytes (block 0 is 0x03020100, 0x07060504, 0x0B0A0908,       *)
(* 0x0F0E0D0C); odd blocks are {0xDEADBEEF, 0, 0, 0}.                      *)
(***************************************************************************)
CountWord(base) ==
    W(((base + 3) % 256) * 256 + ((base + 2) % 256),
      ((base + 1) % 256) * 256 + (base % 256))

DevWords(k) ==
    IF k % 2 = 0
    THEN [j \in 1 .. 4 |-> CountWord(FIFO_BYTES * k + 4 * (j - 1))]
    ELSE [j \in 1 .. 4 |-> IF j = 1 THEN W(57005, 48879) ELSE ZERO]

Alarms == {W(0, 1), W(0, 165)}

VARIABLES
    rng,          \* static vaddr_t rng
    fifo_lock,    \* static struct mutex fifo_lock: its owner, or NOBODY
    fifo,         \* static union fifo, as val[0..3] (here 1..4)
    fifo_pos,     \* static size_t fifo_pos
    pc,           \* position of each thread
    len,          \* hw_get_random_bytes: len
    buffer,       \* hw_get_random_bytes: the bytes stored to buf
    buffer_pos,   \* hw_get_random_bytes: buffer_pos
    idx,          \* the value of fifo_pos loaded for fifo.byte[fifo_pos++]
    alarm,        \* eip76d_rng_read128: alarm
    tune,         \* eip76d_rng_read128: tune
    result,       \* the TEE_Result a thread returned, or NONE
    dev,          \* the registers of the device
    low,          \* the memory a register access through a NULL base hits
    mapOk,        \* whether phys_to_virt finds the mapping of RNG_BASE
    panicked,     \* a data abort stopped the core
    fifo_src,     \* history: the block each word of fifo was read from
    src,          \* history: the position (16 * block + index) of each byte of buffer
    trace,        \* history: the register accesses of the current block read or init
    c0,           \* history: fifo_pos when the call was entered
    nblk,         \* history: block reads completed by the call
    delivered,    \* history: the positions stored to any buffer so far
    ndelivered,   \* history: the number of bytes stored to any buffer so far
    requested,    \* history: the sum of len over the calls made so far
    ncalls,       \* calls made so far
    nevents,      \* shutdown-overflow and external disable events so far
    lateDisable,  \* history: the device was disabled after the ENABLE check of the current block read
    oflos,        \* history: the ALARMSTOP value of each shutdown overflow so far
    snap          \* history: the device, the FIFO and the cursor when eip76d_rng_init last returned

vars == <<rng, fifo_lock, fifo, fifo_pos, pc, len, buffer, buffer_pos, idx,
          alarm, tune, result, dev, low, mapOk, panicked, fifo_src, src,
          trace, c0, nblk, delivered, ndelivered, requested, ncalls,
          nevents, lateDisable, oflos, snap>>

driverVars == <<rng, fifo_lock, fifo, fifo_pos, fifo_src>>
callVars == <<len, buffer, buffer_pos, src, c0, requested, ncalls>>
localVars == <<idx, alarm, tune>>
envVars == <<mapOk, panicked, nevents, oflos, snap>>
histVars == <<nblk, delivered, ndelivered>>

(***************************************************************************)
(* The device: register reads and writes as the register table gives them. *)
(***************************************************************************)
DevReset ==
    [control |-> ZERO, config |-> ZERO, froenable |-> ZERO,
     frodetune |-> ZERO, alarmmask |-> ZERO, alarmstop |-> ZERO,
     status |-> ZERO, out |-> [j \in 1 .. 4 |-> ZERO], blk |-> 0]

DevRead(d, off) ==
    CASE off = RNG_OUTPUT_0 -> d.out[1]
      [] off = RNG_OUTPUT_1 -> d.out[2]
      [] off = RNG_OUTPUT_2 -> d.out[3]
      [] off = RNG_OUTPUT_3 -> d.out[4]
      [] off = RNG_STATUS -> d.status
      [] off = RNG_CONTROL -> d.control
      [] off = RNG_CONFIG -> d.config
      [] off = RNG_FROENABLE -> d.froenable
      [] off = RNG_FRODETUNE -> d.frodetune
      [] off = RNG_ALARMMASK -> d.alarmmask
      [] off = RNG_ALARMSTOP -> d.alarmstop

\* INTACK is write-1-to-clear; acknowledging READY makes the device go on
\* to its next block.
DevWrite(d, off, v) ==
    CASE off = RNG_INTACK ->
           [d EXCEPT !.status = ClearW(d.status, v),
                     !.blk = IF TestW(v, RNG_READY) /\ TestW(d.status, RNG_READY)
                             THEN d.blk + 1 ELSE d.blk]
      [] off = RNG_CONTROL -> [d EXCEPT !.control = v]
      [] off = RNG_CONFIG -> [d EXCEPT !.config = v]
      [] off = RNG_FROENABLE -> [d EXCEPT !.froenable = AndW(v, RNG_FRO_MASK)]
      [] off = RNG_FRODETUNE -> [d EXCEPT !.frodetune = AndW(v, RNG_FRO_MASK)]
      [] off = RNG_ALARMMASK -> [d EXCEPT !.alarmmask = AndW(v, RNG_FRO_MASK)]
      [] off = RNG_ALARMSTOP -> [d EXCEPT !.alarmstop = AndW(v, RNG_FRO_MASK)]
      [] OTHER -> d

(***************************************************************************)
(* io_read32 and io_write32 on rng + off.  With rng NULL the access does   *)
(* not reach the device: it hits whatever is mapped at the low address     *)
(* (plain memory, low) or raises a data abort (DataAbort).                 *)
(***************************************************************************)
\* The log of register accesses; a STATUS read that repeats the one before
\* it (the busy-wait) is logged once.
Log(tr, ev) ==
    IF tr # <<>> /\ tr[Len(tr)] = ev /\ ev[1] = "R" /\ ev[2] = RNG_STATUS
    THEN tr ELSE Append(tr, ev)

io_read32(off) == IF rng = RNG_VA THEN DevRead(dev, off) ELSE low[off]

Reads(off) ==
    /\ trace' = Log(trace, <<"R", off, io_read32(off)>>)
    /\ UNCHANGED <<dev, low>>

io_write32(off, v) ==
    /\ IF rng = RNG_VA
       THEN dev' = DevWrite(dev, off, v) /\ low' = low
       ELSE low' = [low EXCEPT ![off] = v] /\ dev' = dev
    /\ trace' = Log(trace, <<"W", off, v>>)

Goto(th, l) == pc' = [pc EXCEPT ![th] = l]

(***************************************************************************)
(* Initial state: the statics are zero, the lock is free, nothing runs.    *)
(* The device holds its reset values or what an earlier user left.         *)
(***************************************************************************)
DevUsed ==
    [DevReset EXCEPT !.config = W(1, 1), !.frodetune = W(0, 165),
                     !.froenable = W(0, 3)]

InitCommon ==
    /\ rng = NULL
    /\ fifo_lock = NOBODY
    /\ fifo = [j \in 1 .. 4 |-> ZERO]
    /\ fifo_pos = 0
    /\ pc = [th \in Threads |-> IF th = BOOT THEN "boot" ELSE "idle"]
    /\ len = [t \in Callers |-> 0]
    /\ buffer = [t \in Callers |-> <<>>]
    /\ buffer_pos = [t \in Callers |-> 0]
    /\ idx = [t \in Callers |-> 0]
    /\ alarm = [t \in Callers |-> ZERO]
    /\ tune = [t \in Callers |-> ZERO]
    /\ result = [th \in Threads |-> NONE]
    /\ dev \in {DevReset, DevUsed}
    /\ low = [off \in Offsets |-> ZERO]
    /\ panicked = FALSE
    /\ fifo_src = [j \in 1 .. 4 |-> -1]
    /\ src = [t \in Callers |-> <<>>]
    /\ trace = <<>>
    /\ c0 = [t \in Callers |-> 0]
    /\ nblk = [t \in Callers |-> 0]
    /\ delivered = {}
    /\ ndelivered = 0
    /\ requested = 0
    /\ ncalls = 0
    /\ nevents = 0
    /\ lateDisable = FALSE
    /\ oflos = <<>>
    /\ snap = <<>>

\* RNG_BASE is registered with register_phys_mem_pgdir: phys_to_virt finds it.
Init == InitCommon /\ mapOk = TRUE

\* The mapping may also be missing.
InitMap == InitCommon /\ mapOk \in BOOLEAN

(***************************************************************************)
(* eip76d_rng_init                                                         *)
(***************************************************************************)
phys_to_virt == IF mapOk THEN RNG_VA ELSE NULL

\* rng = (vaddr_t)phys_to_virt(...), then eip76d_rng_init_seq()
InitEntry ==
    /\ rng' = phys_to_virt
    /\ Goto(BOOT, "seq_config")
    /\ result' = [result EXCEPT ![BOOT] = NONE]
    /\ trace' = <<>>
    /\ UNCHANGED <<fifo_lock, fifo, fifo_pos, fifo_src, callVars, localVars,
                   dev, low, envVars, histVars, lateDisable>>

\* Entered at platform bring-up; it may be entered again as long as no
\* caller has asked for bytes.
eip76d_rng_init ==
    /\ \/ pc[BOOT] = "boot"
       \/ pc[BOOT] = "returned" /\ \A t \in Callers : pc[t] = "idle"
    /\ InitEntry

\* Entered again after calls have been served, while none is under way.
ReInit ==
    /\ pc[BOOT] = "returned"
    /\ \A t \in Callers : pc[t] \in {"idle", "done"}
    /\ \E t \in Callers : pc[t] = "done"
    /\ InitEntry

\* what eip76d_rng_init leaves behind, and how many calls and events there
\* were up to then
Snapshot ==
    [dev |-> dev, fifo |-> fifo, fifo_pos |-> fifo_pos,
     ncalls |-> ncalls, nevents |-> nevents]

\* return TEE_SUCCESS
InitReturn ==
    /\ pc[BOOT] = "init_ret"
    /\ Goto(BOOT, "returned")
    /\ result' = [result EXCEPT ![BOOT] = TEE_SUCCESS]
    /\ snap' = <<Snapshot>>
    /\ UNCHANGED <<driverVars, callVars, localVars, dev, low, mapOk, panicked,
                   nevents, oflos, histVars, trace, lateDisable>>

(***************************************************************************)
(* eip76d_rng_init_seq, run by eip76d_rng_init and by eip76d_rng_read128.  *)
(***************************************************************************)
\* The refill fields the other way round.
ConfigValSwapped == W(RNG_CONFIG_MIN_REFIL_CYCLES, RNG_CONFIG_MAX_REFIL_CYCLES)

\* val = MIN_REFIL_CYCLES << 0 | MAX_REFIL_CYCLES << 16
ConfigVal == W(RNG_CONFIG_MAX_REFIL_CYCLES, RNG_CONFIG_MIN_REFIL_CYCLES)

SeqFrame ==
    UNCHANGED <<driverVars, callVars, localVars, result, envVars, histVars,
                lateDisable>>

SeqConfig(th) ==
    /\ pc[th] = "seq_config"
    /\ io_write32(RNG_CONFIG, ConfigVal)
    /\ Goto(th, "seq_detune")
    /\ SeqFrame

SeqDetune(th) ==
    /\ pc[th] = "seq_detune"
    /\ io_write32(RNG_FRODETUNE, ZERO)
    /\ Goto(th, "seq_froenable")
    /\ SeqFrame

SeqFroEnable(th) ==
    /\ pc[th] = "seq_froenable"
    /\ io_write32(RNG_FROENABLE, RNG_FRO_MASK)
    /\ Goto(th, "seq_control")
    /\ SeqFrame

\* ENABLE toggled in what CONTROL holds.
SeqControlToggle(th) ==
    /\ pc[th] = "seq_control"
    /\ io_write32(RNG_CONTROL, XorW(io_read32(RNG_CONTROL), ENABLE_TRNG))
    /\ Goto(th, IF th = BOOT THEN "init_ret" ELSE "poll")
    /\ SeqFrame

\* io_write32(rng + RNG_CONTROL, ENABLE_TRNG)
SeqControl(th) ==
    /\ pc[th] = "seq_control"
    /\ io_write32(RNG_CONTROL, ENABLE_TRNG)
    /\ Goto(th, IF th = BOOT THEN "init_ret" ELSE "poll")
    /\ SeqFrame

(***************************************************************************)
(* hw_get_random_bytes                                                     *)
(***************************************************************************)
\* fifo.byte[i] as a big-endian core would lay the union out.
FifoByteBE(f, i) ==
    IF i >= FIFO_BYTES THEN 0
    ELSE LET w == f[(i \div 4) + 1]
             k == 3 - (i % 4)
         IN  IF k < 2 THEN (w[2] \div (256 ^ k)) % 256
             ELSE (w[1] \div (256 ^ (k - 2))) % 256

\* fifo.byte[i]: the union on a little-endian core.
FifoByte(f, i) ==
    IF i >= FIFO_BYTES THEN 0
    ELSE LET w == f[(i \div 4) + 1]
             k == i % 4
         IN  IF k < 2 THEN (w[2] \div (256 ^ k)) % 256
             ELSE (w[1] \div (256 ^ (k - 2))) % 256

\* the position (16 * block + index) of fifo.byte[i] in the device's output
FifoSrc(fs, i) ==
    IF i >= FIFO_BYTES THEN -1 ELSE FIFO_BYTES * fs[(i \div 4) + 1] + i

\* s with s[i] (counted from 0) set to v
Put(s, i, v) ==
    [k \in 1 .. (IF i + 1 > Len(s) THEN i + 1 ELSE Len(s)) |->
        IF k = i + 1 THEN v ELSE IF k <= Len(s) THEN s[k] ELSE -1]

\* A caller invokes hw_get_random_bytes(buf, n) with a fresh buf.
Call(t, n) ==
    /\ pc[BOOT] = "returned"
    /\ pc[t] \in {"idle", "done"}
    /\ ncalls < MaxCalls
    /\ requested + n <= FIFO_BYTES * MaxBlocks
    /\ ncalls' = ncalls + 1
    /\ Goto(t, "entry")
    /\ len' = [len EXCEPT ![t] = n]
    /\ buffer' = [buffer EXCEPT ![t] = <<>>]
    /\ src' = [src EXCEPT ![t] = <<>>]
    /\ result' = [result EXCEPT ![t] = NONE]
    /\ nblk' = [nblk EXCEPT ![t] = 0]
    /\ requested' = requested + n
    /\ UNCHANGED <<driverVars, buffer_pos, c0, localVars, dev, low, envVars,
                   delivered, ndelivered, trace, lateDisable>>

\* The loop test as a do-while would make it.
WhileCondLE(pos, n) == pos <= n

\* while (buffer_pos < len)
WhileCond(pos, n) == pos < n

\* size_t buffer_pos = 0, and the first test of the loop
Entry(t) ==
    /\ pc[t] = "entry"
    /\ buffer_pos' = [buffer_pos EXCEPT ![t] = 0]
    /\ c0' = [c0 EXCEPT ![t] = fifo_pos]
    /\ IF WhileCond(0, len[t])
       THEN Goto(t, "lock") /\ result' = result
       ELSE Goto(t, "done") /\ result' = [result EXCEPT ![t] = TEE_SUCCESS]
    /\ UNCHANGED <<driverVars, len, buffer, src, requested, ncalls, localVars,
                   dev, low, envVars, histVars, trace, lateDisable>>

\* Lock without the wait for the owner to release.
LockNoWait(t) ==
    /\ pc[t] = "lock"
    /\ fifo_lock' = <<t>>
    /\ Goto(t, "test")
    /\ UNCHANGED <<rng, fifo, fifo_pos, fifo_src, callVars, localVars, result,
                   dev, low, envVars, histVars, trace, lateDisable>>

\* mutex_lock(&fifo_lock)
Lock(t) ==
    /\ pc[t] = "lock"
    /\ fifo_lock = NOBODY
    /\ fifo_lock' = <<t>>
    /\ Goto(t, "test")
    /\ UNCHANGED <<rng, fifo, fifo_pos, fifo_src, callVars, localVars, result,
                   dev, low, envVars, histVars, trace, lateDisable>>

\* A refill for every byte.
RefillAlways(pos) == TRUE

\* The refill made one byte late.
RefillLate(pos) == pos = 1

\* if (fifo_pos == 0)
NeedRefill(pos) == pos = 0

\* if (fifo_pos == 0) eip76d_rng_read128(...)
RefillTest(t) ==
    /\ pc[t] = "test"
    /\ IF NeedRefill(fifo_pos)
       THEN Goto(t, "is_enabled") /\ trace' = <<>> /\ lateDisable' = FALSE
       ELSE Goto(t, "load") /\ UNCHANGED <<trace, lateDisable>>
    /\ UNCHANGED <<driverVars, callVars, localVars, result, dev, low, envVars,
                   histVars>>

\* buffer[buffer_pos++] = fifo.byte[fifo_pos++]: the load of fifo_pos
Load(t) ==
    /\ pc[t] = "load"
    /\ idx' = [idx EXCEPT ![t] = fifo_pos]
    /\ Goto(t, "store")
    /\ UNCHANGED <<driverVars, callVars, alarm, tune, result, dev, low,
                   envVars, histVars, trace, lateDisable>>

\* buffer[buffer_pos++] = fifo.byte[fifo_pos++]: the stores
Store(t) ==
    /\ pc[t] = "store"
    /\ buffer' = [buffer EXCEPT ![t] = Put(@, buffer_pos[t], FifoByte(fifo, idx[t]))]
    /\ src' = [src EXCEPT ![t] = Put(@, buffer_pos[t], FifoSrc(fifo_src, idx[t]))]
    /\ buffer_pos' = [buffer_pos EXCEPT ![t] = @ + 1]
    /\ fifo_pos' = idx[t] + 1
    /\ idx' = [idx EXCEPT ![t] = 0]
    /\ delivered' = delivered \cup {FifoSrc(fifo_src, idx[t])}
    /\ ndelivered' = ndelivered + 1
    /\ trace' = <<>>
    /\ Goto(t, "wrap")
    /\ UNCHANGED <<rng, fifo_lock, fifo, fifo_src, len, c0, requested, ncalls,
                   alarm, tune, result, dev, low, envVars, nblk, lateDisable>>

\* Wrap with the modulus one short.
WrapShort(t) ==
    /\ pc[t] = "wrap"
    /\ fifo_pos' = fifo_pos % (FIFO_BYTES - 1)
    /\ Goto(t, "unlock")
    /\ UNCHANGED <<rng, fifo_lock, fifo, fifo_src, callVars, localVars, result,
                   dev, low, envVars, histVars, trace, lateDisable>>

\* The cursor never wrapped.
WrapNever(t) ==
    /\ pc[t] = "wrap"
    /\ fifo_pos' = fifo_pos
    /\ Goto(t, "unlock")
    /\ UNCHANGED <<rng, fifo_lock, fifo, fifo_src, callVars, localVars, result,
                   dev, low, envVars, histVars, trace, lateDisable>>

\* fifo_pos %= 16
Wrap(t) ==
    /\ pc[t] = "wrap"
    /\ fifo_pos' = fifo_pos % FIFO_BYTES
    /\ Goto(t, "unlock")
    /\ UNCHANGED <<rng, fifo_lock, fifo, fifo_src, callVars, localVars, result,
                   dev, low, envVars, histVars, trace, lateDisable>>

\* The lock kept over the next test of the loop and the return.
UnlockForgotten(t) ==
    /\ pc[t] = "unlock"
    /\ fifo_lock' = fifo_lock
    /\ IF WhileCond(buffer_pos[t], len[t])
       THEN Goto(t, "lock") /\ result' = result
       ELSE Goto(t, "done") /\ result' = [result EXCEPT ![t] = TEE_SUCCESS]
    /\ UNCHANGED <<rng, fifo, fifo_pos, fifo_src, callVars, localVars, dev,
                   low, envVars, histVars, trace, lateDisable>>

\* mutex_unlock(&fifo_lock), the next test of the loop, return TEE_SUCCESS
Unlock(t) ==
    /\ pc[t] = "unlock"
    /\ fifo_lock' = NOBODY
    /\ IF WhileCond(buffer_pos[t], len[t])
       THEN Goto(t, "lock") /\ result' = result
       ELSE Goto(t, "done") /\ result' = [result EXCEPT ![t] = TEE_SUCCESS]
    /\ UNCHANGED <<rng, fifo, fifo_pos, fifo_src, callVars, localVars, dev,
                   low, envVars, histVars, trace, lateDisable>>

(***************************************************************************)
(* eip76d_rng_read128                                                      *)
(***************************************************************************)
\* The check taken for granted.
AssumedEnabled == TRUE

\* The device taken for disabled.
NeverEnabled == FALSE

\* return io_read32(rng + RNG_CONTROL) & ENABLE_TRNG
eip76d_rng_is_enabled == TestW(io_read32(RNG_CONTROL), ENABLE_TRNG)

ReadFrame ==
    UNCHANGED <<driverVars, callVars, result, envVars, histVars, lateDisable>>

\* if (!eip76d_rng_is_enabled()) eip76d_rng_init_seq()
IsEnabled(t) ==
    /\ pc[t] = "is_enabled"
    /\ Reads(RNG_CONTROL)
    /\ Goto(t, IF eip76d_rng_is_enabled THEN "poll" ELSE "seq_config")
    /\ UNCHANGED localVars
    /\ ReadFrame

\* Poll that gives the lock up while READY is clear.
PollYield(t) ==
    /\ pc[t] = "poll"
    /\ Reads(RNG_STATUS)
    /\ IF TestW(io_read32(RNG_STATUS), RNG_READY)
       THEN Goto(t, "out0") /\ fifo_lock' = fifo_lock
       ELSE Goto(t, "poll_oflo") /\ fifo_lock' = NOBODY
    /\ UNCHANGED <<rng, fifo, fifo_pos, fifo_src, callVars, localVars, result,
                   envVars, histVars, lateDisable>>

\* Poll that goes on to the overflow test when SHUTDOWN_OFLO shows, READY
\* or not.
PollOverflowFirst(t) ==
    /\ pc[t] = "poll"
    /\ Reads(RNG_STATUS)
    /\ Goto(t, IF /\ TestW(io_read32(RNG_STATUS), RNG_READY)
                  /\ ~TestW(io_read32(RNG_STATUS), SHUTDOWN_OFLO)
               THEN "out0" ELSE "poll_oflo")
    /\ UNCHANGED localVars
    /\ ReadFrame

\* while (!(io_read32(rng + RNG_STATUS) & RNG_READY))
Poll(t) ==
    /\ pc[t] = "poll"
    /\ Reads(RNG_STATUS)
    /\ Goto(t, IF TestW(io_read32(RNG_STATUS), RNG_READY) THEN "out0" ELSE "poll_oflo")
    /\ UNCHANGED localVars
    /\ ReadFrame

\* The poll loop left when neither READY nor SHUTDOWN_OFLO shows.
PollOfloGiveUp(t) ==
    /\ pc[t] = "poll_oflo"
    /\ Reads(RNG_STATUS)
    /\ Goto(t, IF TestW(io_read32(RNG_STATUS), SHUTDOWN_OFLO) THEN "rd_alarm" ELSE "out0")
    /\ UNCHANGED localVars
    /\ ReadFrame

\* if (io_read32(rng + RNG_STATUS) & SHUTDOWN_OFLO)
PollOflo(t) ==
    /\ pc[t] = "poll_oflo"
    /\ Reads(RNG_STATUS)
    /\ Goto(t, IF TestW(io_read32(RNG_STATUS), SHUTDOWN_OFLO) THEN "rd_alarm" ELSE "poll")
    /\ UNCHANGED localVars
    /\ ReadFrame

RdAlarm(t) ==
    /\ pc[t] = "rd_alarm"
    /\ Reads(RNG_ALARMSTOP)
    /\ alarm' = [alarm EXCEPT ![t] = io_read32(RNG_ALARMSTOP)]
    /\ Goto(t, "rd_tune")
    /\ UNCHANGED <<idx, tune>>
    /\ ReadFrame

RdTune(t) ==
    /\ pc[t] = "rd_tune"
    /\ Reads(RNG_FRODETUNE)
    /\ tune' = [tune EXCEPT ![t] = io_read32(RNG_FRODETUNE)]
    /\ Goto(t, "wr_alarmmask")
    /\ UNCHANGED <<idx, alarm>>
    /\ ReadFrame

WrAlarmMask(t) ==
    /\ pc[t] = "wr_alarmmask"
    /\ io_write32(RNG_ALARMMASK, ZERO)
    /\ Goto(t, "wr_alarmstop")
    /\ UNCHANGED localVars
    /\ ReadFrame

WrAlarmStop(t) ==
    /\ pc[t] = "wr_alarmstop"
    /\ io_write32(RNG_ALARMSTOP, ZERO)
    /\ Goto(t, "wr_frodetune")
    /\ UNCHANGED localVars
    /\ ReadFrame

\* The alarmed FROs detuned, none tuned back.
DetunedOr(tn, al) == OrW(tn, al)

\* The detune setting left as it was read.
DetuneKept(tn, al) == tn

\* tune ^ alarm
Detuned(tn, al) == XorW(tn, al)

WrFroDetune(t) ==
    /\ pc[t] = "wr_frodetune"
    /\ io_write32(RNG_FRODETUNE, Detuned(tune[t], alarm[t]))
    /\ Goto(t, "wr_froenable")
    /\ UNCHANGED localVars
    /\ ReadFrame

WrFroEnable(t) ==
    /\ pc[t] = "wr_froenable"
    /\ io_write32(RNG_FROENABLE, RNG_FRO_MASK)
    /\ Goto(t, "ack_oflo")
    /\ UNCHANGED localVars
    /\ ReadFrame

\* io_write32(rng + RNG_INTACK, SHUTDOWN_OFLO); alarm and tune go out of scope
AckOflo(t) ==
    /\ pc[t] = "ack_oflo"
    /\ io_write32(RNG_INTACK, SHUTDOWN_OFLO)
    /\ alarm' = [alarm EXCEPT ![t] = ZERO]
    /\ tune' = [tune EXCEPT ![t] = ZERO]
    /\ Goto(t, "poll")
    /\ UNCHANGED idx
    /\ ReadFrame

\* The output words read last to first.
OutOffsetDown(j) == 4 * (3 - j)

\* RNG_OUTPUT_0 .. RNG_OUTPUT_3
OutOffset(j) == 4 * j

OutPc(j) == CASE j = 0 -> "out0" [] j = 1 -> "out1" [] j = 2 -> "out2"
              [] j = 3 -> "out3" [] OTHER -> "ack_ready"

\* *wordj = io_read32(rng + RNG_OUTPUT_j), the words being fifo.val[0..3]
Out(t, j) ==
    /\ pc[t] = OutPc(j)
    /\ Reads(OutOffset(j))
    /\ fifo' = [fifo EXCEPT ![j + 1] = io_read32(OutOffset(j))]
    /\ fifo_src' = [fifo_src EXCEPT ![j + 1] = IF rng = RNG_VA THEN dev.blk ELSE -1]
    /\ Goto(t, OutPc(j + 1))
    /\ UNCHANGED <<rng, fifo_lock, fifo_pos, callVars, localVars, result,
                   envVars, histVars, lateDisable>>

\* The block read returns without the acknowledgement of READY.
AckMissing(t) ==
    /\ pc[t] = "ack_ready"
    /\ nblk' = [nblk EXCEPT ![t] = @ + 1]
    /\ Goto(t, "load")
    /\ UNCHANGED <<driverVars, callVars, localVars, result, envVars, dev, low,
                   trace, delivered, ndelivered, lateDisable>>

\* io_write32(rng + RNG_INTACK, RNG_READY), and the return to the caller
AckReady(t) ==
    /\ pc[t] = "ack_ready"
    /\ io_write32(RNG_INTACK, RNG_READY)
    /\ nblk' = [nblk EXCEPT ![t] = @ + 1]
    /\ Goto(t, "load")
    /\ UNCHANGED <<driverVars, callVars, localVars, result, envVars,
                   delivered, ndelivered, lateDisable>>

(***************************************************************************)
(* The environment: the device and what happens to it.                     *)
(***************************************************************************)
SeqPCs == {"seq_config", "seq_detune", "seq_froenable", "seq_control"}
RecoveryPCs == {"rd_alarm", "rd_tune", "wr_alarmmask", "wr_alarmstop",
                "wr_frodetune", "wr_froenable", "ack_oflo"}
OutPCs == {"out0", "out1", "out2", "out3"}
PollLoopPCs == RecoveryPCs \cup {"poll", "poll_oflo"}
AfterCheckPCs == SeqPCs \cup RecoveryPCs \cup OutPCs
                     \cup {"poll", "poll_oflo", "ack_ready"}
Read128PCs == {"is_enabled"} \cup AfterCheckPCs
WritePCs == SeqPCs \cup {"wr_alarmmask", "wr_alarmstop", "wr_frodetune",
                         "wr_froenable", "ack_oflo", "ack_ready"}
LockedPCs == Read128PCs \cup {"test", "load", "store", "wrap", "unlock"}

EnvFrame ==
    UNCHANGED <<driverVars, pc, callVars, localVars, result, low, mapOk,
                panicked, histVars, trace, snap>>

\* The driver reads STATUS, ALARMSTOP and OUTPUT_0..3 only inside a block
\* read, so what the device latches before a block read starts is seen there
\* as if latched after its start: the device events are taken then.
Observed == \E t \in Callers : pc[t] \in Read128PCs

\* The device latches READY with its next block in OUTPUT_0..3.
DevReady ==
    /\ Observed
    /\ TestW(dev.control, ENABLE_TRNG)
    /\ ~TestW(dev.status, RNG_READY)
    /\ dev.blk < MaxBlocks
    /\ dev' = [dev EXCEPT !.status = OrW(@, RNG_READY), !.out = DevWords(dev.blk)]
    /\ UNCHANGED <<nevents, lateDisable, oflos>>
    /\ EnvFrame

\* FROs trip the alarm: the device latches them in ALARMSTOP, shuts them
\* down and latches SHUTDOWN_OFLO.  At most budget events happen.
Overflow(budget) ==
    /\ Observed
    /\ TestW(dev.control, ENABLE_TRNG)
    /\ ~TestW(dev.status, SHUTDOWN_OFLO)
    /\ ~TestW(dev.status, RNG_READY)
    /\ nevents < budget
    /\ \E a \in Alarms :
          /\ dev' = [dev EXCEPT !.status = OrW(@, SHUTDOWN_OFLO),
                                !.alarmstop = a,
                                !.froenable = ClearW(@, a)]
          /\ oflos' = Append(oflos, a)
    /\ nevents' = nevents + 1
    /\ UNCHANGED lateDisable
    /\ EnvFrame

DevOverflow == Overflow(MaxEvents)

\* ENABLE is cleared from outside the driver: alone, or by a reset of the
\* whole block.
Disabled(d, whole) ==
    IF whole THEN [DevReset EXCEPT !.blk = d.blk] ELSE [d EXCEPT !.control = ZERO]

ExternalDisable ==
    /\ nevents < MaxEvents
    /\ pc[BOOT] = "returned"
    /\ \E whole \in BOOLEAN : dev' = Disabled(dev, whole)
    /\ nevents' = nevents + 1
    /\ lateDisable' = (lateDisable \/ \E t \in Callers : pc[t] \in AfterCheckPCs)
    /\ UNCHANGED oflos
    /\ EnvFrame

\* ... between calls
DisableBetween ==
    /\ \A t \in Callers : pc[t] \in {"idle", "done"}
    /\ ExternalDisable

\* ... while a call is under way
DisableDuring ==
    /\ \E t \in Callers : pc[t] \notin {"idle", "done"}
    /\ ExternalDisable

\* A register access through a NULL base raises a data abort: the core panics.
DataAbort(th) ==
    /\ rng = NULL
    /\ pc[th] \in (Read128PCs \ {"is_enabled"}) \cup (IF th = BOOT THEN {} ELSE {"is_enabled"})
    /\ panicked' = TRUE
    /\ UNCHANGED <<driverVars, pc, callVars, localVars, result, dev, low,
                   mapOk, histVars, trace, nevents, lateDisable, oflos, snap>>

(***************************************************************************)
(* Specifications.                                                         *)
(***************************************************************************)
InitSeq(th) ==
    \/ SeqConfig(th)
    \/ SeqDetune(th)
    \/ SeqFroEnable(th)
    \/ SeqControl(th)

Boot ==
    \/ eip76d_rng_init
    \/ InitSeq(BOOT)
    \/ InitReturn

eip76d_rng_read128(t) ==
    \/ IsEnabled(t)
    \/ InitSeq(t)
    \/ Poll(t)
    \/ PollOflo(t)
    \/ RdAlarm(t)
    \/ RdTune(t)
    \/ WrAlarmMask(t)
    \/ WrAlarmStop(t)
    \/ WrFroDetune(t)
    \/ WrFroEnable(t)
    \/ AckOflo(t)
    \/ \E j \in 0 .. 3 : Out(t, j)
    \/ AckReady(t)

hw_get_random_bytes(t) ==
    \/ Entry(t)
    \/ Lock(t)
    \/ RefillTest(t)
    \/ eip76d_rng_read128(t)
    \/ Load(t)
    \/ Store(t)
    \/ Wrap(t)
    \/ Unlock(t)

Device ==
    \/ DevReady
    \/ DevOverflow
    \/ DisableBetween

\* The first call is made alone and asks for nothing or for up to a whole
\* block, which leaves the cursor near the end of the block.
FirstLens == {0} \cup ((FIFO_BYTES - ConcLen) .. FIFO_BYTES)

FirstCall(n) ==
    /\ ncalls = 0
    /\ Call(1, n)

\* Later calls are short and overlap.
LaterCall(t, n) ==
    /\ ncalls > 0
    /\ \A u \in Callers : pc[u] \in {"idle", "done"} \/ len[u] <= ConcLen
    /\ Call(t, n)

\* Concurrent callers.
Next ==
    /\ ~panicked
    /\ \/ Boot
       \/ \E n \in FirstLens : FirstCall(n)
       \/ \E t \in Callers : \E n \in 0 .. ConcLen : LaterCall(t, n)
       \/ \E t \in Callers : hw_get_random_bytes(t)
       \/ Device

Spec == Init /\ [][Next]_vars

\* One caller, requests of up to a whole block.
SoloCall(n) ==
    /\ ncalls < SoloCalls
    /\ Call(1, n)

NextSolo ==
    /\ ~panicked
    /\ \/ Boot
       \/ \E n \in 0 .. FIFO_BYTES : SoloCall(n)
       \/ hw_get_random_bytes(1)
       \/ Device

SpecSolo == Init /\ [][NextSolo]_vars

\* The device may be disabled at any moment.
NextReset ==
    \/ Next
    \/ ~panicked /\ DisableDuring

SpecReset == Init /\ [][NextReset]_vars

\* phys_to_virt may fail.
NextMap ==
    \/ Next
    \/ ~panicked /\ \E th \in Threads : DataAbort(th)

SpecMap == InitMap /\ [][NextMap]_vars

\* Bring-up, also entered again after calls of one caller for part of a
\* block or a whole block.
InitLens == {5, FIFO_BYTES}

NextInit ==
    /\ ~panicked
    /\ \/ Boot
       \/ ReInit
       \/ \E n \in InitLens : SoloCall(n)
       \/ hw_get_random_bytes(1)
       \/ Device

SpecInit == Init /\ [][NextInit]_vars

\* One call of each caller, for nothing or for ConcLen bytes, made at any
\* time; the threads are scheduled fairly, the mutex is fair and the device
\* presents READY when it can.
ShortLens == {0, ConcLen}

OneCall(t, n) ==
    /\ pc[t] = "idle"
    /\ Call(t, n)

NextShort ==
    /\ ~panicked
    /\ \/ Boot
       \/ \E t \in Callers : \E n \in ShortLens : OneCall(t, n)
       \/ \E t \in Callers : hw_get_random_bytes(t)
       \/ Device

\* A thread that can take a step again and again takes one: every step but
\* mutex_lock can be taken as soon as the thread is at it, and mutex_lock
\* whenever the lock is free.
Fairness ==
    /\ \A t \in Callers : SF_vars(hw_get_random_bytes(t))
    /\ WF_vars(DevReady)

SpecFair == Init /\ [][NextShort]_vars /\ Fairness

\* The same calls, nothing fair, and the device may be disabled at any
\* moment, after which it presents READY no more.
NextStall ==
    \/ NextShort
    \/ ~panicked /\ DisableDuring

SpecStall == Init /\ [][NextStall]_vars

\* One call of one caller for nothing or for a whole block, during which
\* the FROs may trip the alarm again and again.
OfloLens == {0, FIFO_BYTES}

NextOflo ==
    /\ ~panicked
    /\ \/ Boot
       \/ \E n \in OfloLens : FirstCall(n)
       \/ hw_get_random_bytes(1)
       \/ DevReady
       \/ Overflow(MaxOflo)
       \/ DisableBetween

SpecOflo == Init /\ [][NextOflo]_vars

(***************************************************************************)
(* Properties.                                                             *)
(***************************************************************************)
\* byte p of the device's output sequence
DevSeq(p) == FifoByte(DevWords(p \div FIFO_BYTES), p % FIFO_BYTES)

AllComplete == \A t \in Callers : pc[t] \in {"idle", "done"}

\* C1: no byte of the device's output, identified by its block and its index
\* in the block, is delivered twice, to the same caller or to two callers.
C1_NoByteTwice ==
    /\ Cardinality(delivered) = ndelivered
    /\ \A t, u \in Callers :
          \A i \in 1 .. Len(src[t]) : \A j \in 1 .. Len(src[u]) :
             (t # u \/ i # j) => src[t][i] # src[u][j]

\* Two overlapping calls have each taken bytes of the same block, in turns.
C1_Witness ==
    /\ Len(src[1]) = 2 /\ Len(src[2]) = 2
    /\ pc[1] = "done" /\ pc[2] = "done"
    /\ src[1][1] < src[2][1] /\ src[2][1] < src[1][2] /\ src[1][2] < src[2][2]

\* C2: once all calls have returned, the bytes delivered are exactly the
\* first bytes of the device's output sequence, as many as were asked for,
\* none skipped, and every buffer holds bytes of that sequence in its order.
C2_Serialized ==
    /\ \A t \in Callers :
          /\ \A i \in 1 .. Len(src[t]) : buffer[t][i] = DevSeq(src[t][i])
          /\ \A i, j \in 1 .. Len(src[t]) : i < j => src[t][i] < src[t][j]
    /\ AllComplete =>
          /\ delivered = 0 .. (requested - 1)
          /\ \A t \in Callers : Len(buffer[t]) = len[t]

\* Two callers asked for ConcLen bytes each at the end of block 0 and both
\* returned: their bytes straddle the block boundary.
C2_Witness ==
    /\ AllComplete
    /\ \A t \in Callers : t <= 2 => len[t] = ConcLen /\ Len(src[t]) = ConcLen
    /\ \E t, u \in Callers :
          /\ src[t][1] < FIFO_BYTES /\ src[u][ConcLen] >= FIFO_BYTES
    /\ requested > FIFO_BYTES

\* C3: a block read is done under the FIFO lock from its ENABLE check to its
\* acknowledgement, and meanwhile no other caller is past mutex_lock.
C3_BlockReadAtomic ==
    \A t \in Callers :
       pc[t] \in Read128PCs =>
          /\ fifo_lock = <<t>>
          /\ \A u \in Callers \ {t} : pc[u] \notin LockedPCs

\* One caller is between two OUTPUT reads while another waits for the lock.
C3_Witness ==
    \E t, u \in Callers : pc[t] = "out2" /\ pc[u] = "lock"

\* C4 as claimed: every thread that writes a device register holds the lock.
C4_AllWritesLocked ==
    \A th \in Threads : pc[th] \in WritePCs => fifo_lock = <<th>>

\* C4: every register write of hw_get_random_bytes (bring-up, FRO recovery,
\* acknowledgements) is done under the FIFO lock; eip76d_rng_init does its
\* bring-up writes without it.
C4_CallerWritesLocked ==
    /\ \A t \in Callers : pc[t] \in WritePCs => fifo_lock = <<t>>
    /\ pc[BOOT] \in SeqPCs => fifo_lock = NOBODY

\* A caller is about to write FRODETUNE in the FRO recovery.
C4_Witness ==
    \E t \in Callers : pc[t] = "wr_frodetune" /\ fifo_lock = <<t>>

\* ceil(x / 16)
CeilBlocks(x) == (x + FIFO_BYTES - 1) \div FIFO_BYTES

\* C5 as claimed: a call of one caller for len <= 16 bytes entered with the
\* cursor at c0 does exactly ceil((c0 + len) / 16) block reads.
C5_CeilOfSum ==
    (pc[1] = "done" /\ len[1] <= FIFO_BYTES) =>
        nblk[1] = CeilBlocks(c0[1] + len[1])

\* C5: it does ceil((c0 + len) / 16) - ceil(c0 / 16) block reads: the block
\* that holds the bytes left over at c0 > 0 was read by an earlier call.
C5_BlockReads ==
    (pc[1] = "done" /\ len[1] <= FIFO_BYTES) =>
        nblk[1] = CeilBlocks(c0[1] + len[1]) - CeilBlocks(c0[1])

\* A call for 10 bytes entered with the cursor at 10 has returned.
C5_Witness ==
    pc[1] = "done" /\ c0[1] = 10 /\ len[1] = 10 /\ nblk[1] = 1

\* bits [lo + 7 : lo] of the 32-bit word w
RECURSIVE WordBits(_, _, _)
WordBits(w, lo, n) ==
    IF n = 0 THEN 0
    ELSE (IF lo < 16 THEN (w[2] \div (2 ^ lo)) % 2
          ELSE (w[1] \div (2 ^ (lo - 16))) % 2)
         + 2 * WordBits(w, lo + 1, n - 1)

\* C6: the byte delivered from index i of a block read that returned w0..w3
\* is bits [8 * (i mod 4) + 7 : 8 * (i mod 4)] of w(i div 4); 16 bytes from
\* cursor 0 over block 0 are 0x00..0x0F, and 4 bytes from cursor 0 over
\* OUTPUT_0 = 0xDEADBEEF are EF, BE, AD, DE.
C6_LittleEndian ==
    /\ \A t \in Callers : \A k \in 1 .. Len(buffer[t]) :
          LET i == src[t][k] % FIFO_BYTES
              w == DevWords(src[t][k] \div FIFO_BYTES)[(i \div 4) + 1]
          IN  buffer[t][k] = WordBits(w, 8 * (i % 4), 8)
    /\ \A t \in Callers :
          (pc[t] = "done" /\ len[t] = FIFO_BYTES /\ src[t][1] = 0) =>
              buffer[t] = <<0, 1, 2, 3, 4, 5, 6, 7, 8, 9, 10, 11, 12, 13, 14, 15>>
    /\ \A t \in Callers :
          (pc[t] = "done" /\ len[t] = 4 /\ src[t][1] = FIFO_BYTES) =>
              buffer[t] = <<239, 190, 173, 222>>

\* Sixteen bytes were fetched from cursor 0 over block 0, then four over
\* block 1, whose OUTPUT_0 is 0xDEADBEEF.
C6_Witness ==
    /\ pc[1] = "done" /\ len[1] = 4 /\ c0[1] = 0
    /\ src[1] = <<16, 17, 18, 19>>
    /\ buffer[1] = <<239, 190, 173, 222>>

\* C7: when phys_to_virt fails, eip76d_rng_init does not enter the bring-up
\* sequence and does not return TEE_SUCCESS.
C7_InitFailsUnmapped ==
    ~mapOk =>
        /\ pc[BOOT] \notin SeqPCs
        /\ result[BOOT] # TEE_SUCCESS

\* C8: a call with len 0 returns TEE_SUCCESS in its first step, and that
\* step reads and writes no register, leaves the lock, the FIFO, the cursor
\* and the destination as they are; the call is never at any other place.
C8_ZeroLenNoop ==
    /\ [](\A t \in Callers : len[t] = 0 => pc[t] \in {"idle", "entry", "done"})
    /\ [][\A t \in Callers :
            (pc[t] = "entry" /\ len[t] = 0 /\ pc'[t] # "entry") =>
                /\ pc'[t] = "done"
                /\ result'[t] = TEE_SUCCESS
                /\ UNCHANGED <<dev, low, trace, fifo_lock, fifo, fifo_pos,
                               buffer, src, rng>>]_vars

\* A call with len 0 has returned while the cursor is inside a block and
\* another caller holds the lock.
C8_Witness ==
    /\ pc[1] = "done" /\ len[1] = 0 /\ result[1] = TEE_SUCCESS
    /\ buffer[1] = <<>>
    /\ fifo_pos # 0
    /\ fifo_lock = <<2>>

IsOutRead(e) == e[1] = "R" /\ e[2] \in {RNG_OUTPUT_0, RNG_OUTPUT_1, RNG_OUTPUT_2, RNG_OUTPUT_3}
IsReadyAck(e) == e[1] = "W" /\ e[2] = RNG_INTACK /\ TestW(e[3], RNG_READY)
OutReadsAt == {k \in 1 .. Len(trace) : IsOutRead(trace[k])}
ReadyAcksAt == {k \in 1 .. Len(trace) : IsReadyAck(trace[k])}

\* C9: in the register accesses of a block read, the OUTPUT reads are at
\* most four, of offsets 0x00, 0x04, 0x08, 0x0C in this order with nothing
\* between them, the access before the first is a STATUS read that showed
\* READY, the write of exactly READY to INTACK follows the fourth at once
\* and is the last access, and a block read that has returned has done it.
C9_DrainThenAck ==
    /\ Cardinality(OutReadsAt) <= 4
    /\ \A k \in OutReadsAt :
          LET first == CHOOSE f \in OutReadsAt : \A x \in OutReadsAt : f <= x
          IN  /\ trace[k][2] = 4 * (k - first)
              /\ first > 1
              /\ trace[first - 1][1] = "R"
              /\ trace[first - 1][2] = RNG_STATUS
              /\ TestW(trace[first - 1][3], RNG_READY)
    /\ \A k \in ReadyAcksAt :
          /\ k = Len(trace)
          /\ trace[k][3] = RNG_READY
          /\ Cardinality(OutReadsAt) = 4
          /\ k - 1 \in OutReadsAt
    /\ \A t \in Callers :
          /\ pc[t] \in OutPCs \cup {"ack_ready"} => ReadyAcksAt = {}
          /\ pc[t] = "ack_ready" => Cardinality(OutReadsAt) = 4
          /\ (pc[t] = "load" /\ trace # <<>>) => Cardinality(ReadyAcksAt) = 1

\* A block read that ran the FRO recovery has drained and acknowledged.
C9_Witness ==
    /\ \E t \in Callers : pc[t] = "load"
    /\ Cardinality(ReadyAcksAt) = 1
    /\ \E k \in 1 .. Len(trace) : trace[k] = <<"W", RNG_INTACK, SHUTDOWN_OFLO>>

\* C10 as claimed: ENABLE is set whenever a caller is about to read an
\* OUTPUT register, whenever the device is disabled from outside.
C10_EnabledAtOutput ==
    \A t \in Callers : pc[t] \in OutPCs => TestW(dev.control, ENABLE_TRNG)

\* C10: ENABLE is set whenever a caller is about to read an OUTPUT register,
\* unless the device was disabled from outside after the ENABLE check of that
\* block read, which the block read does not notice.
C10_EnabledUnlessLate ==
    \A t \in Callers :
       pc[t] \in OutPCs => (TestW(dev.control, ENABLE_TRNG) \/ lateDisable)

\* The device was disabled before the block read, which ran the bring-up
\* sequence and is about to read OUTPUT_0.
C10_Witness ==
    /\ \E t \in Callers : pc[t] = "out0"
    /\ nevents = 1 /\ ~lateDisable
    /\ \E k \in 1 .. Len(trace) : trace[k] = <<"W", RNG_CONTROL, ENABLE_TRNG>>
    /\ TestW(dev.control, ENABLE_TRNG)

\* eip76d_rng_init has returned and nothing has happened since.
JustInitialized ==
    \/ pc[BOOT] = "init_ret"
    \/ /\ pc[BOOT] = "returned"
       /\ snap # <<>>
       /\ snap[1].ncalls = ncalls /\ snap[1].nevents = nevents

InitSeqWrites ==
    << <<"W", RNG_CONFIG, W(34, 5)>>, <<"W", RNG_FRODETUNE, ZERO>>,
       <<"W", RNG_FROENABLE, W(255, 65535)>>, <<"W", RNG_CONTROL, W(0, 1024)>> >>

\* C12: when eip76d_rng_init has returned, whatever the registers held
\* before, CONTROL is exactly bit 10 (ENABLE set, startup cycles 0), CONFIG is
\* 0x00220005 (min refill 0x05, max refill 0x22), FRODETUNE is 0 and FROENABLE
\* is 0x00FFFFFF, and the register accesses of the init were the writes of
\* CONFIG, FRODETUNE, FROENABLE and CONTROL in this order.
C12_InitRegisters ==
    JustInitialized =>
        /\ dev.control = W(0, 1024)
        /\ dev.config = W(34, 5)
        /\ dev.frodetune = ZERO
        /\ dev.froenable = W(255, 65535)
        /\ trace = InitSeqWrites

\* eip76d_rng_init has run again and is returning, on a device that had a
\* shutdown overflow during a call since the init before.
C12_Witness ==
    /\ pc[BOOT] = "init_ret"
    /\ snap # <<>>
    /\ snap[1].ncalls < ncalls
    /\ snap[1].nevents < nevents
    /\ oflos # <<>>

\* the init that is returning was entered right after the one before it
SecondInARow ==
    /\ pc[BOOT] = "init_ret"
    /\ snap # <<>>
    /\ snap[1].ncalls = ncalls /\ snap[1].nevents = nevents

\* C13: an init entered right after an init leaves every device register,
\* the FIFO and the cursor as the first one left them.
C13_InitIdempotent ==
    SecondInARow =>
        /\ dev = snap[1].dev
        /\ fifo = snap[1].fifo
        /\ fifo_pos = snap[1].fifo_pos

\* The second of two inits in a row returns, after a call had left the
\* cursor inside a block.
C13_Witness ==
    /\ SecondInARow
    /\ fifo_pos = 5
    /\ fifo # [j \in 1 .. 4 |-> ZERO]

IsStatusRead(e) == e[1] = "R" /\ e[2] = RNG_STATUS
IsAlarmRead(e) == e[1] = "R" /\ e[2] = RNG_ALARMSTOP
AlarmReadsAt == {k \in 1 .. Len(trace) : IsAlarmRead(trace[k])}

\* the register accesses of an FRO recovery that reads ALARMSTOP = a and
\* FRODETUNE = t
RecoveryAccesses(a, t) ==
    << <<"R", RNG_ALARMSTOP, a>>, <<"R", RNG_FRODETUNE, t>>,
       <<"W", RNG_ALARMMASK, ZERO>>, <<"W", RNG_ALARMSTOP, ZERO>>,
       <<"W", RNG_FRODETUNE, XorW(t, a)>>,
       <<"W", RNG_FROENABLE, W(255, 65535)>>,
       <<"W", RNG_INTACK, W(0, 2)>> >>

\* C11: in the register accesses of a block read, a STATUS read that shows
\* READY clear and SHUTDOWN_OFLO set is followed (after at most a repeated
\* STATUS read) by the FRO recovery: with ALARMSTOP = a and FRODETUNE = t
\* read, the writes ALARMMASK = 0, ALARMSTOP = 0, FRODETUNE = t XOR a,
\* FROENABLE = 0x00FFFFFF, INTACK = SHUTDOWN_OFLO in this order, no OUTPUT
\* register read before them, then a STATUS read again; for a = 0xA5, t = 0
\* the value written to FRODETUNE is 0xA5.
C11_RecoveryOrder ==
    /\ \A k \in AlarmReadsAt :
          LET a == trace[k][3]
              t == IF k + 1 <= Len(trace) THEN trace[k + 1][3] ELSE ZERO
          IN  /\ k > 1
              /\ IsStatusRead(trace[k - 1])
              /\ TestW(trace[k - 1][3], SHUTDOWN_OFLO)
              /\ \A i \in 1 .. 7 :
                    k + i - 1 <= Len(trace) =>
                        trace[k + i - 1] = RecoveryAccesses(a, t)[i]
              /\ k + 7 <= Len(trace) => IsStatusRead(trace[k + 7])
              /\ \A m \in OutReadsAt : m > k + 7
              /\ (k + 4 <= Len(trace) /\ a = W(0, 165) /\ t = ZERO) =>
                    trace[k + 4] = <<"W", RNG_FRODETUNE, W(0, 165)>>
    /\ \A k \in 1 .. Len(trace) - 1 :
          (/\ IsStatusRead(trace[k])
           /\ TestW(trace[k][3], SHUTDOWN_OFLO)
           /\ ~TestW(trace[k][3], RNG_READY)) =>
              \/ IsAlarmRead(trace[k + 1])
              \/ /\ IsStatusRead(trace[k + 1])
                 /\ TestW(trace[k + 1][3], SHUTDOWN_OFLO)
                 /\ k + 2 <= Len(trace) => IsAlarmRead(trace[k + 2])
    /\ \A k \in 1 .. Len(trace) :
          (trace[k][1] = "W" /\ trace[k][2] \in {RNG_ALARMMASK, RNG_ALARMSTOP}) =>
              \E r \in AlarmReadsAt : k \in {r + 2, r + 3}

\* A block read has returned after two FRO recoveries: the first read
\* ALARMSTOP = 0xA5 with FRODETUNE = 0 and wrote FRODETUNE = 0xA5, the second
\* read a FRODETUNE that was not 0.
C11_Witness ==
    /\ pc[1] = "load"
    /\ Cardinality(AlarmReadsAt) >= 2
    /\ \E k \in AlarmReadsAt :
          /\ trace[k] = <<"R", RNG_ALARMSTOP, W(0, 165)>>
          /\ trace[k + 1] = <<"R", RNG_FRODETUNE, ZERO>>
          /\ trace[k + 4] = <<"W", RNG_FRODETUNE, W(0, 165)>>
          /\ trace[k + 6] = <<"W", RNG_INTACK, SHUTDOWN_OFLO>>
    /\ \E k \in AlarmReadsAt :
          /\ trace[k + 1][3] # ZERO
          /\ trace[k + 4] = <<"W", RNG_FRODETUNE, XorW(trace[k + 1][3], trace[k][3])>>

\* C14: whenever the FIFO lock is free the cursor is in 0 .. 15 and equals
\* the number of bytes delivered so far modulo 16, so it starts at 0 and is
\* 0 again exactly when byte 15 of a block has been consumed; the step that
\* delivers a byte advances the cursor by 1, and the only other change of
\* the cursor is the wrap from 16 to 0.
C14_CursorRange ==
    /\ [](fifo_lock = NOBODY =>
            /\ fifo_pos \in 0 .. (FIFO_BYTES - 1)
            /\ fifo_pos = ndelivered % FIFO_BYTES)
    /\ [][(ndelivered' # ndelivered =>
               (ndelivered' = ndelivered + 1 /\ fifo_pos' = fifo_pos + 1))
           /\ (fifo_pos' # fifo_pos =>
                  (\/ ndelivered' = ndelivered + 1
                   \/ fifo_pos = FIFO_BYTES /\ fifo_pos' = 0))]_vars

\* The cursor is back at 0 after byte 15 of block 0, the lock is free and
\* two callers are about to take it.
C14_Witness ==
    /\ fifo_lock = NOBODY
    /\ fifo_pos = 0
    /\ ndelivered = FIFO_BYTES
    /\ pc[1] = "lock" /\ pc[2] = "lock"

\* the device presents READY
Ready == TestW(dev.status, RNG_READY)

\* C15: if a caller is in the poll loop of a block read and the device
\* presents READY never again, the caller stays in the poll loop for ever
\* and holds the FIFO lock for ever, and no other caller is ever past
\* mutex_lock; a caller leaves mutex_lock only when the lock is free, so one
\* that waits for it then waits for ever.
C15_StallBlocks ==
    /\ \A t \in Callers :
          []((pc[t] \in PollLoopPCs /\ []~Ready) =>
                [](/\ pc[t] \in PollLoopPCs
                   /\ fifo_lock = <<t>>
                   /\ \A u \in Callers \ {t} : pc[u] \notin LockedPCs))
    /\ [][\A u \in Callers :
            (pc[u] = "lock" /\ pc'[u] # "lock") =>
                (fifo_lock = NOBODY /\ pc'[u] = "test")]_vars

\* A caller polls a device that was disabled after the ENABLE check of the
\* block read and so presents READY no more, while the other caller waits
\* for the lock.
C15_Witness ==
    \E t, u \in Callers :
       /\ pc[t] = "poll" /\ pc[u] = "lock"
       /\ lateDisable /\ ~TestW(dev.control, ENABLE_TRNG)
       /\ ~Ready
       /\ Len(trace) >= 2

\* C19: with fair threads, a fair mutex and a device that presents READY
\* when it can, every call that is entered returns; a call that has
\* returned has returned TEE_SUCCESS, has stored to the indices 0 .. len - 1
\* of its destination and to no other, and does not hold the FIFO lock.
C19_Terminates ==
    /\ \A t \in Callers : (pc[t] = "entry") ~> (pc[t] = "done")
    /\ [](\A t \in Callers :
             pc[t] = "done" =>
                /\ result[t] = TEE_SUCCESS
                /\ buffer_pos[t] = len[t]
                /\ Len(buffer[t]) = len[t]
                /\ \A i \in 1 .. len[t] : buffer[t][i] \in 0 .. 255
                /\ fifo_lock # <<t>>)

\* Both callers have returned from calls for ConcLen bytes that overlapped,
\* one of which ran an FRO recovery.
C19_Witness ==
    /\ \A t \in Callers : t <= 2 =>
          /\ pc[t] = "done" /\ result[t] = TEE_SUCCESS
          /\ len[t] = ConcLen /\ Len(buffer[t]) = ConcLen
    /\ src[1][1] < src[2][1] /\ src[2][1] < src[1][ConcLen]
    /\ oflos # <<>>
    /\ fifo_lock = NOBODY

\* the register accesses logged are those of a block read, which begins
\* with the read of CONTROL
InBlockRead ==
    /\ trace # <<>>
    /\ trace[1][1] = "R" /\ trace[1][2] = RNG_CONTROL

IsBringUpWrite(e) == e[1] = "W" /\ e[2] \in {RNG_CONFIG, RNG_CONTROL}

\* C16: a block read that finds ENABLE clear in CONTROL writes CONFIG,
\* FRODETUNE = 0, FROENABLE and CONTROL = ENABLE, in this order, right after
\* the read of CONTROL and before its first read of STATUS; one that finds
\* ENABLE set reads STATUS next and writes neither CONFIG nor CONTROL.
C16_BringUpFirst ==
    /\ InBlockRead =>
          IF TestW(trace[1][3], ENABLE_TRNG)
          THEN /\ Len(trace) >= 2 => IsStatusRead(trace[2])
               /\ \A k \in 1 .. Len(trace) : ~IsBringUpWrite(trace[k])
          ELSE /\ \A i \in 1 .. 4 :
                     i + 1 <= Len(trace) => trace[i + 1] = InitSeqWrites[i]
               /\ Len(trace) >= 6 => IsStatusRead(trace[6])
               /\ \A k \in 1 .. Len(trace) :
                     /\ IsStatusRead(trace[k]) => k >= 6
                     /\ IsBringUpWrite(trace[k]) => k <= 5
    /\ \A t \in Callers :
          /\ pc[t] \in AfterCheckPCs => InBlockRead
          /\ pc[t] \in SeqPCs => ~TestW(trace[1][3], ENABLE_TRNG)
          /\ pc[t] \in AfterCheckPCs \ SeqPCs =>
                (TestW(trace[1][3], ENABLE_TRNG) \/ Len(trace) >= 5)

\* A block read found ENABLE clear after a reset of the whole device
\* between two calls, ran the bring-up sequence and then polled STATUS.
C16_Witness ==
    /\ \E t \in Callers : pc[t] = "poll_oflo"
    /\ ncalls >= 2
    /\ Len(trace) = 6
    /\ trace[1] = <<"R", RNG_CONTROL, ZERO>>
    /\ trace[5] = <<"W", RNG_CONTROL, ENABLE_TRNG>>
    /\ IsStatusRead(trace[6])
    /\ dev.config = ConfigVal

\* the call of t is past its entry
InCall(t) == pc[t] \notin {"idle", "entry"}

\* C17: a caller is in a block read only with the cursor at 0, and when it
\* is about to consume a byte a block read has just returned if and only if
\* the cursor is 0.  A call entered with the cursor at c0 > 0 does no block
\* read before it has delivered the 16 - c0 bytes left of the current block,
\* from the indices c0 .. 15.  A call for 10 bytes from cursor 0 ends with
\* the cursor at 10; a call for 10 bytes from cursor 10 does one block read,
\* after its first 6 bytes, and ends with the cursor at 4.
C17_RefillAtZero ==
    \A t \in Callers :
       /\ pc[t] \in Read128PCs =>
             /\ fifo_pos = 0
             /\ (c0[t] + buffer_pos[t]) % FIFO_BYTES = 0
       /\ pc[t] = "load" =>
             /\ (fifo_pos = 0) <=> (trace # <<>>)
             /\ trace # <<>> => Cardinality(ReadyAcksAt) = 1
       /\ (InCall(t) /\ c0[t] > 0) =>
             /\ buffer_pos[t] < FIFO_BYTES - c0[t] =>
                   (nblk[t] = 0 /\ pc[t] \notin Read128PCs)
             /\ \A i \in 1 .. Len(src[t]) :
                   i <= FIFO_BYTES - c0[t] =>
                       src[t][i] % FIFO_BYTES = c0[t] + i - 1
             /\ nblk[t] > 0 => Len(src[t]) >= FIFO_BYTES - c0[t]
       /\ (pc[t] = "done" /\ c0[t] = 0 /\ len[t] = 10) =>
             (fifo_pos = 10 /\ nblk[t] = 1)
       /\ (pc[t] = "done" /\ c0[t] = 10 /\ len[t] = 10) =>
             /\ nblk[t] = 1
             /\ fifo_pos = 4
             /\ \A i \in 1 .. 6 : src[t][i] = src[t][1] + i - 1
             /\ src[t][1] % FIFO_BYTES = 10
             /\ \A i \in 7 .. 10 : src[t][i] = src[t][1] + i - 1
             /\ src[t][7] % FIFO_BYTES = 0

\* After a call for 10 bytes from cursor 0, a second call for 10 bytes has
\* delivered the six bytes left of block 0 and is in its block read.
C17_Witness ==
    /\ pc[1] = "out0"
    /\ c0[1] = 10 /\ len[1] = 10
    /\ buffer_pos[1] = 6 /\ nblk[1] = 0
    /\ src[1] = <<10, 11, 12, 13, 14, 15>>
    /\ fifo_pos = 0

\* three shutdown overflows with ALARMSTOP = 0x000001 and no other event
ThreeOverflows ==
    /\ oflos = <<W(0, 1), W(0, 1), W(0, 1)>>
    /\ nevents = 3

\* C18: a block read that returns after three FRO recoveries, each of which
\* read ALARMSTOP = 0x000001, the first with FRODETUNE = 0, read FRODETUNE =
\* 0, 1, 0 and leaves FRODETUNE = 0x000001; the call for 16 bytes during
\* which the three overflows were presented and recovered returns
\* TEE_SUCCESS with the 16 bytes of the block and FRODETUNE = 0x000001.
C18_ThreeOverflows ==
    /\ (/\ pc[1] = "load" /\ InBlockRead
        /\ ThreeOverflows
        /\ Cardinality(AlarmReadsAt) = 3) =>
           /\ \A k \in AlarmReadsAt :
                 /\ trace[k][3] = W(0, 1)
                 /\ trace[k + 1][3] =
                       (IF Cardinality({j \in AlarmReadsAt : j < k}) = 1
                        THEN W(0, 1) ELSE ZERO)
           /\ dev.frodetune = W(0, 1)
           /\ Cardinality(ReadyAcksAt) = 1
           /\ fifo = DevWords(0)
    /\ (/\ pc[1] = "done" /\ len[1] = FIFO_BYTES
        /\ ThreeOverflows
        /\ ~TestW(dev.status, SHUTDOWN_OFLO)) =>
           /\ dev.frodetune = W(0, 1)
           /\ result[1] = TEE_SUCCESS
           /\ nblk[1] = 1
           /\ buffer[1] = <<0, 1, 2, 3, 4, 5, 6, 7, 8, 9, 10, 11, 12, 13, 14, 15>>

\* The call for 16 bytes has returned after the three overflows, all of
\* them recovered.
C18_Witness ==
    /\ pc[1] = "done" /\ len[1] = FIFO_BYTES
    /\ ThreeOverflows
    /\ ~TestW(dev.status, SHUTDOWN_OFLO)
    /\ dev.frodetune = W(0, 1)
    /\ Len(buffer[1]) = FIFO_BYTES
    /\ result[1] = TEE_SUCCESS

StatusReadsAt == {k \in 1 .. Len(trace) : IsStatusRead(trace[k])}

\* the STATUS read that ended the poll loop of the block read
ExitPoll == CHOOSE p \in StatusReadsAt : \A k \in StatusReadsAt : k <= p

\* the block read of t has left the poll loop
Draining(t) ==
    \/ pc[t] \in OutPCs \cup {"ack_ready"}
    \/ pc[t] = "load" /\ InBlockRead

\* C20: when the STATUS read that ends the poll loop shows SHUTDOWN_OFLO
\* together with READY, the block read goes on to read the four OUTPUT
\* registers and to write READY to INTACK and does nothing else: it writes
\* none of ALARMMASK, ALARMSTOP, FRODETUNE, FROENABLE, ALARMSTOP still holds
\* the alarm and FROENABLE lacks the alarmed FROs, and SHUTDOWN_OFLO is still
\* latched in STATUS when the block read has returned.  A caller enters the
\* FRO recovery only from the overflow test, and the overflow test only from
\* a poll that showed READY clear.
C20_NoRecoveryWhenReady ==
    /\ [](\A t \in Callers :
             (Draining(t) /\ TestW(trace[ExitPoll][3], SHUTDOWN_OFLO)) =>
                /\ TestW(trace[ExitPoll][3], RNG_READY)
                /\ \A k \in (ExitPoll + 1) .. Len(trace) :
                      \/ IsOutRead(trace[k])
                      \/ trace[k] = <<"W", RNG_INTACK, RNG_READY>>
                /\ TestW(dev.status, SHUTDOWN_OFLO)
                /\ dev.alarmstop = oflos[Len(oflos)]
                /\ dev.froenable = ClearW(RNG_FRO_MASK, oflos[Len(oflos)]))
    /\ [][\A t \in Callers :
            /\ (pc[t] # "rd_alarm" /\ pc'[t] = "rd_alarm") => pc[t] = "poll_oflo"
            /\ (pc[t] # "poll_oflo" /\ pc'[t] = "poll_oflo") =>
                  (pc[t] = "poll" /\ ~Ready)
            /\ (pc[t] = "poll" /\ Ready /\ pc'[t] # "poll") => pc'[t] = "out0"]_vars

\* A block read has returned that ran no FRO recovery although the device
\* had latched a shutdown overflow, which is still latched.
C20_Witness ==
    /\ pc[1] = "load" /\ InBlockRead
    /\ trace[ExitPoll][3] = W(0, 3)
    /\ AlarmReadsAt = {}
    /\ Cardinality(ReadyAcksAt) = 1
    /\ dev.status = SHUTDOWN_OFLO
    /\ dev.alarmstop # ZERO

====
